---- MODULE Spec2Model ----
(***************************************************************************)
(* LocationPingServ (src/index.js): in-memory sessions and pings, a        *)
(* blacklist cached in memory and persisted in MongoDB, and a periodic     *)
(* expiry sweep.  Node runs every synchronous handler to completion, so    *)
(* each synchronous handler is one action; the two async blacklist         *)
(* handlers and loadBlacklist are split at their single await.             *)
(* Time is Date.now() in milliseconds counted from process start.          *)
(* session.lastSeen is written by login and authenticate and read nowhere  *)
(* in the program, so the session record keeps role and token only.        *)
(* The payload fields x, y, z, label, dimension of a ping are copied       *)
(* through unread by the code and are left out of the ping record.         *)
(***************************************************************************)
EXTENDS Integers, Sequences, FiniteSets, Bags, TLC

\* ---------------------------------------------------------------- bounds
MaxTokens == 2      \* logins that issue a token
MaxPings == 2       \* posts that create a ping
MaxTicks == 1       \* clock advances, one sweep period each
MaxInflight == 1    \* blacklist handlers suspended at their await
MaxLen == 3         \* characters of a duration string handed to parseDuration

\* ------------------------------------------------------------- constants
PASSWORD_USER == "Espan@1500$$"
PASSWORD_ADMIN == "Adm1nEsp@na#@"
DefaultDurationMs == 5 * 60 * 1000
SweepPeriodMs == 10000

Identities == {"alice", "bob"}
PersistedAtStart == {{}, {"bob"}}   \* blacklist documents left by earlier runs
Missing == "<missing>"          \* an absent (falsy) body field
NoToken == 0                    \* absent X-Auth-Token header
BogusToken == -1                \* a header value no login ever returned
Null == [null |-> TRUE]

Digits == {"0", "1", "2", "3", "4", "5", "6", "7", "8", "9"}
Units == {"s", "m", "h", "d", "w"}

\* request inputs drawn by the actions
Passwords == {PASSWORD_USER, PASSWORD_ADMIN, "wrong", Missing}
PingTypes == {"LOCATION", "COORD", "WAYPOINT"}
Absent == [kind |-> "absent"]               \* duration omitted
NonString == [kind |-> "nonstring"]         \* JSON number / object / true
Str(cs) == [kind |-> "string", chars |-> cs]
DurationInputs == {NonString, Str(<<"0", "s">>), Str(<<"1", "0", "s">>)}

\* characters the strings handed to a direct call of parseDuration are made of
DurationChars == {"0", "1", "7", "s", "m", "h", "d", "w", "-", "x"}

VARIABLES
    users,          \* Map username -> [role, token]
    blacklistCache, \* array of usernames
    pings,          \* array of pings
    db,             \* BlacklistUser collection (unique usernames)
    readyState,     \* mongoose.connection.readyState: 0, 1 connected, 2 connecting
    loadPc,         \* loadBlacklist: "idle", "find", "settled", "done"
    loadDocs,       \* settled BlacklistUser.find({}): [ok, docs]
    inflight,       \* bag of blacklist handlers suspended at their await
    now,            \* Date.now()
    lastSweep,      \* time the interval callback last ran (0: process start)
    nextToken,      \* uuidv4() for tokens: next unused value
    nextPingId,     \* uuidv4() for ping ids: next unused value
    resp,           \* the last response sent: status, error, and for a 200 the
                    \* endpoint and its data (bar the blacklist echoed by add/remove)
    issuedTo,       \* history: token -> username of the login that returned it
    addSeen,        \* history: tokens issued before an accepted add of their user
    mustList,       \* history: usernames added by an add and not since removed
    durationStr,    \* the argument of a direct call of parseDuration
    durationMs      \* what that call came back with; Null before the call

vars == <<users, blacklistCache, pings, db, readyState, loadPc, loadDocs,
          inflight, now, lastSweep, nextToken, nextPingId, resp,
          issuedTo, addSeen, mustList, durationStr, durationMs>>

callVars == <<durationStr, durationMs>>
dbVars == <<db, readyState, loadPc, loadDocs>>
histVars == <<issuedTo, addSeen, mustList>>

\* --------------------------------------------------------------- helpers
Range(s) == {s[i] : i \in 1..Len(s)}
Includes(arr, x) == \E i \in 1..Len(arr) : arr[i] = x
RemoveAt(arr, i) == [j \in 1..(Len(arr) - 1) |-> IF j < i THEN arr[j] ELSE arr[j + 1]]
IndexOf(arr, x) ==
    IF Includes(arr, x) THEN CHOOSE i \in 1..Len(arr) :
                                /\ arr[i] = x
                                /\ \A j \in 1..(i - 1) : arr[j] # x
    ELSE -1
Perms(S) == {s \in [1..Cardinality(S) -> S] : Range(s) = S}

DigitVal(c) ==
    CASE c = "0" -> 0 [] c = "1" -> 1 [] c = "2" -> 2 [] c = "3" -> 3
      [] c = "4" -> 4 [] c = "5" -> 5 [] c = "6" -> 6 [] c = "7" -> 7
      [] c = "8" -> 8 [] c = "9" -> 9

RECURSIVE parseInt(_)
parseInt(cs) ==
    IF cs = <<>> THEN 0
    ELSE 10 * parseInt(SubSeq(cs, 1, Len(cs) - 1)) + DigitVal(cs[Len(cs)])

\* /^(\d+)([smhdw])$/
DurationMatch(cs) ==
    /\ Len(cs) >= 2
    /\ \A i \in 1..(Len(cs) - 1) : cs[i] \in Digits
    /\ cs[Len(cs)] \in Units

\* durationStr.match is not a function when durationStr is truthy and not a string
parseDurationThrows(d) == d.kind = "nonstring"

parseDuration(d) ==
    IF d.kind = "absent" \/ (d.kind = "string" /\ d.chars = <<>>) THEN DefaultDurationMs
    ELSE IF ~DurationMatch(d.chars) THEN DefaultDurationMs
    ELSE LET val == parseInt(SubSeq(d.chars, 1, Len(d.chars) - 1))
             unit == d.chars[Len(d.chars)]
         IN CASE unit = "s" -> val * 1000
              [] unit = "m" -> val * 60 * 1000
              [] unit = "h" -> val * 60 * 60 * 1000
              [] unit = "d" -> val * 24 * 60 * 60 * 1000
              [] unit = "w" -> val * 7 * 24 * 60 * 60 * 1000

\* TLC computes in 32 bits where a JS number is exact up to 2^53: a string is
\* left out when the product parseDuration forms for it is above 2^31 - 1
FitsTlc(cs) ==
    DurationMatch(cs) =>
        parseInt(SubSeq(cs, 1, Len(cs) - 1))
            <= 2147483647 \div parseDuration(Str(<<"1", cs[Len(cs)]>>))

\* arguments of a direct call of parseDuration: absent, not a string, and
\* every string of up to MaxLen of DurationChars
Strings == {cs \in UNION {[1..n -> DurationChars] : n \in 0..MaxLen} : FitsTlc(cs)}
ParseInputs == {Absent, NonString} \cup {Str(cs) : cs \in Strings}

getUserByToken(token) ==
    IF \E u \in DOMAIN users : users[u].token = token
    THEN LET u == CHOOSE u \in DOMAIN users : users[u].token = token
         IN [username |-> u, role |-> users[u].role, token |-> users[u].token]
    ELSE Null

\* authenticate without the test for an absent header
authenticateNoMissingCheck(token) ==
    LET user == getUserByToken(token) IN
    IF user = Null THEN [ok |-> FALSE, status |-> 401, error |-> "Invalid token"]
    ELSE IF Includes(blacklistCache, user.username)
         THEN [ok |-> FALSE, status |-> 403, error |-> "User is blacklisted"]
         ELSE [ok |-> TRUE, status |-> 200, error |-> "", user |-> user]

\* authenticate without the late ban check
authenticateNoBanCheck(token) ==
    IF token = NoToken THEN [ok |-> FALSE, status |-> 401, error |-> "Missing token"]
    ELSE LET user == getUserByToken(token) IN
         IF user = Null THEN [ok |-> FALSE, status |-> 401, error |-> "Invalid token"]
         ELSE [ok |-> TRUE, status |-> 200, error |-> "", user |-> user]

authenticate(token) ==
    IF token = NoToken THEN [ok |-> FALSE, status |-> 401, error |-> "Missing token"]
    ELSE LET user == getUserByToken(token) IN
         IF user = Null THEN [ok |-> FALSE, status |-> 401, error |-> "Invalid token"]
         ELSE IF Includes(blacklistCache, user.username)
              THEN [ok |-> FALSE, status |-> 403, error |-> "User is blacklisted"]
              ELSE [ok |-> TRUE, status |-> 200, error |-> "", user |-> user]

\* a login that keeps the session an already logged-in username has
SetSessionKeepOld(username, role, token) ==
    IF username \in DOMAIN users THEN users
    ELSE [u \in DOMAIN users \cup {username} |->
            IF u = username THEN [role |-> role, token |-> token] ELSE users[u]]

\* users.set(username, {role, token, lastSeen: Date.now()})
SetSession(username, role, token) ==
    [u \in DOMAIN users \cup {username} |->
        IF u = username THEN [role |-> role, token |-> token]
        ELSE users[u]]

\* users.delete(username)
DeleteSession(username) == [u \in DOMAIN users \ {username} |-> users[u]]

Tokens == DOMAIN issuedTo
TokenInputs == Tokens \cup {NoToken, BogusToken}

\* a 200 answer, tagged with the endpoint that sent it
Success(op) == [op |-> op, status |-> 200, error |-> ""]

\* A request to any route behind the authenticate middleware that the
\* middleware answers itself (401 or 403): next() is not called and the route
\* handler does not run.  An error answer carries status and error.
AuthReject(token) ==
    /\ ~authenticate(token).ok
    /\ resp' = [status |-> authenticate(token).status,
                error |-> authenticate(token).error]
    /\ UNCHANGED <<users, blacklistCache, pings, dbVars, inflight, now, lastSweep,
                   nextToken, nextPingId, histVars, callVars>>

\* ------------------------------------------------------------------ Init
\* the service's own state when the module has been loaded
InitService ==
    /\ users = <<>>
    /\ blacklistCache = <<>>
    /\ pings = <<>>
    /\ readyState \in {0, 2}       \* MONGODB_URI unset, or connecting
    /\ db \in IF readyState = 0 THEN {{}} ELSE PersistedAtStart
    /\ loadPc = "idle"
    /\ loadDocs = [ok |-> FALSE]
    /\ inflight = EmptyBag
    /\ now = 0
    /\ lastSweep = 0
    /\ nextToken = 1
    /\ nextPingId = 1
    /\ resp = [status |-> 0, error |-> ""]
    /\ issuedTo = <<>>
    /\ addSeen = {}
    /\ mustList = {}

Init ==
    /\ InitService
    /\ durationStr = Absent
    /\ durationMs = Null

\* ---------------------------------------------------- POST /api/auth/login
\* a login that never consults the blacklist
LoginBannedNever(username) == FALSE

\* blacklistCache.includes(username), checked before the password
LoginBanned(username) == Includes(blacklistCache, username)

Login(username, password) ==
    /\ UNCHANGED <<blacklistCache, pings, dbVars, inflight, now, lastSweep,
                   nextPingId, addSeen, mustList, callVars>>
    /\ IF username = Missing \/ password = Missing
       THEN /\ resp' = [status |-> 400, error |-> "Missing credentials"]
            /\ UNCHANGED <<users, nextToken, issuedTo>>
       ELSE IF LoginBanned(username)
       THEN /\ resp' = [status |-> 403, error |-> "Forbidden"]
            /\ UNCHANGED <<users, nextToken, issuedTo>>
       ELSE IF password # PASSWORD_ADMIN /\ password # PASSWORD_USER
       THEN /\ resp' = [status |-> 401, error |-> "Invalid credentials"]
            /\ UNCHANGED <<users, nextToken, issuedTo>>
       ELSE LET role == IF password = PASSWORD_ADMIN THEN "ADMIN" ELSE "USER"
                token == nextToken
            IN /\ nextToken <= MaxTokens
               /\ users' = SetSession(username, role, token)
               /\ nextToken' = nextToken + 1
               /\ issuedTo' = [t \in Tokens \cup {token} |->
                                  IF t = token THEN username ELSE issuedTo[t]]
               /\ resp' = Success("login") @@ [token |-> token, role |-> role]

\* ------------------------------------------------------- GET /api/pings
\* res.json(pings)
ListResult(arr) == arr

GetPings(token) ==
    /\ authenticate(token).ok
    /\ resp' = Success("getPings") @@ [body |-> ListResult(pings)]
    /\ UNCHANGED <<users, blacklistCache, pings, dbVars, inflight, now, lastSweep,
                   nextToken, nextPingId, histVars, callVars>>

\* ------------------------------------------------------ POST /api/pings
\* an eviction that forgets the type test
EvictLocationAnyType(arr, username) ==
    LET Keep(p) == ~(p.author = username) IN SelectSeq(arr, Keep)

\* pings.filter(p => !(p.author === user.username && p.type === 'LOCATION'))
EvictLocation(arr, username) ==
    LET Keep(p) == ~(p.author = username /\ p.type = "LOCATION") IN SelectSeq(arr, Keep)

\* type === 'COORD' && user.role !== 'ADMIN'
CoordForbidden(type, role) == type = "COORD" /\ role # "ADMIN"

\* an expiry that leaves the clock out
ExpiresAtNoClock(t, ms) == ms

\* const expiresAt = Date.now() + durationMs
ExpiresAt(t, ms) == t + ms

\* a registry that takes the new ping at the front
PingsUnshift(arr, p) == <<p>> \o arr

\* pings.push(newPing)
PingsPush(arr, p) == Append(arr, p)

PostPing(token, type, duration) ==
    LET user == authenticate(token).user
        kept == IF type = "LOCATION" THEN EvictLocation(pings, user.username) ELSE pings
        newPing == [id |-> nextPingId, type |-> type, author |-> user.username,
                    expiresAt |-> ExpiresAt(now, parseDuration(duration))]
    IN
    /\ authenticate(token).ok
    /\ UNCHANGED <<users, blacklistCache, dbVars, inflight, now, lastSweep, nextToken,
                   histVars, callVars>>
    /\ IF CoordForbidden(type, user.role)
       THEN /\ resp' = [status |-> 403, error |-> "Only admins can post COORD pings"]
            /\ UNCHANGED <<pings, nextPingId>>
       ELSE IF type # "COORD" /\ type # "LOCATION"
       THEN /\ resp' = [status |-> 400, error |-> "Invalid ping type"]
            /\ UNCHANGED <<pings, nextPingId>>
       ELSE IF parseDurationThrows(duration)
       THEN \* TypeError out of parseDuration, after the eviction: express answers 500
            /\ pings' = kept
            /\ resp' = [status |-> 500, error |-> "TypeError"]
            /\ UNCHANGED nextPingId
       ELSE /\ nextPingId <= MaxPings
            /\ pings' = PingsPush(kept, newPing)
            /\ nextPingId' = nextPingId + 1
            /\ resp' = Success("postPing") @@ [ping |-> newPing]

\* ------------------------------------------------ DELETE /api/pings/:id
\* pings.findIndex(p => p.id === id)
FindIndex(arr, id) ==
    IF \E i \in 1..Len(arr) : arr[i].id = id
    THEN CHOOSE i \in 1..Len(arr) : /\ arr[i].id = id
                                    /\ \A j \in 1..(i - 1) : arr[j].id # id
    ELSE -1

\* a delete that skips the ownership test
MayDeleteAnyone(user, ping) == TRUE

\* user.role === 'ADMIN' || ping.author === user.username
MayDelete(user, ping) == user.role = "ADMIN" \/ ping.author = user.username

DeletePing(token, id) ==
    LET user == authenticate(token).user
        pingIndex == FindIndex(pings, id)
    IN
    /\ authenticate(token).ok
    /\ UNCHANGED <<users, blacklistCache, dbVars, inflight, now, lastSweep, nextToken,
                   nextPingId, histVars, callVars>>
    /\ IF pingIndex = -1
       THEN /\ resp' = [status |-> 404, error |-> "Ping not found"]
            /\ UNCHANGED pings
       ELSE IF MayDelete(user, pings[pingIndex])
       THEN /\ pings' = RemoveAt(pings, pingIndex)
            /\ resp' = Success("deletePing")
       ELSE /\ resp' = [status |-> 403, error |-> "You can only delete your own pings"]
            /\ UNCHANGED pings

\* ------------------------------------------------------ AUTO-EXPIRATION
\* a sweep that removes nothing
SweepFilterKeepAll(arr, t) == arr

\* a sweep that keeps a ping at the very instant it expires
SweepFilterInclusive(arr, t) == LET Keep(p) == p.expiresAt >= t IN SelectSeq(arr, Keep)

\* a sweep with the comparison turned round
SweepFilterReversed(arr, t) == LET Keep(p) == p.expiresAt <= t IN SelectSeq(arr, Keep)

\* pings.filter(p => p.expiresAt > now)
SweepFilter(arr, t) == LET Keep(p) == p.expiresAt > t IN SelectSeq(arr, Keep)

\* the setInterval callback; a timer never fires early
Sweep ==
    /\ now >= lastSweep + SweepPeriodMs
    /\ pings' = SweepFilter(pings, now)
    /\ lastSweep' = now
    /\ UNCHANGED <<users, blacklistCache, dbVars, inflight, now, nextToken,
                   nextPingId, resp, histVars, callVars>>

\* the clock advances
Tick ==
    /\ now < MaxTicks * SweepPeriodMs
    /\ now' = now + SweepPeriodMs
    /\ UNCHANGED <<users, blacklistCache, pings, dbVars, inflight, lastSweep,
                   nextToken, nextPingId, resp, histVars, callVars>>

\* --------------------------------------------------- POST /api/blacklist
Handler(op, username) == [op |-> op, username |-> username]
Suspended == BagToSet(inflight)
DbTruthy == readyState # 0          \* if (mongoose.connection.readyState)

\* a role test that lets every session through
NotAdminNever(user) == FALSE

\* req.user.role !== 'ADMIN', the first statement of the three blacklist handlers
NotAdmin(user) == user.role # "ADMIN"

AdminFail ==
    /\ resp' = [status |-> 403, error |-> "Admin required"]
    /\ UNCHANGED <<users, blacklistCache, pings, dbVars, inflight, now, lastSweep,
                   nextToken, nextPingId, histVars, callVars>>
UsernameFail ==
    /\ resp' = [status |-> 400, error |-> "Username required"]
    /\ UNCHANGED <<users, blacklistCache, pings, dbVars, inflight, now, lastSweep,
                   nextToken, nextPingId, histVars, callVars>>

\* an add that never finds the username cached
AlreadyCachedNever(arr, username) == FALSE

\* blacklistCache.includes(username) at the head of the add handler
AlreadyCached(arr, username) == Includes(arr, username)

\* blacklistCache.push(username)
CachePush(arr, username) == Append(arr, username)

\* the part of the add handler that runs before its await (all of it when
\* readyState is 0 or the username is already cached)
BlacklistAdd(token, username) ==
    /\ authenticate(token).ok
    /\ IF NotAdmin(authenticate(token).user) THEN AdminFail
       ELSE IF username = Missing THEN UsernameFail
       ELSE
       /\ addSeen' = addSeen \cup {t \in Tokens : issuedTo[t] = username}
       /\ mustList' = mustList \cup {username}
       /\ UNCHANGED <<pings, dbVars, now, lastSweep, nextToken, nextPingId, issuedTo, callVars>>
       /\ IF ~AlreadyCached(blacklistCache, username)
          THEN /\ blacklistCache' = CachePush(blacklistCache, username)
               /\ IF DbTruthy
                  THEN /\ BagCardinality(inflight) < MaxInflight
                       /\ inflight' = inflight (+) SetToBag({Handler("add", username)})
                       /\ UNCHANGED <<users, resp>>
                  ELSE /\ users' = DeleteSession(username)
                       /\ resp' = Success("addBlacklist")
                       /\ UNCHANGED inflight
          ELSE /\ resp' = Success("addBlacklist")
               /\ UNCHANGED <<users, blacklistCache, inflight>>

\* an add handler that gives up when its write fails: the cache entry is
\* taken back and the session is left alone
AddResumeAbortOnError(h) ==
    LET NotIt(u) == u # h.username IN
    /\ h \in Suspended /\ h.op = "add"
    /\ \/ /\ readyState = 1 /\ h.username \notin db /\ db' = db \cup {h.username}
          /\ users' = DeleteSession(h.username)
          /\ UNCHANGED blacklistCache
       \/ /\ db' = db
          /\ blacklistCache' = SelectSeq(blacklistCache, NotIt)
          /\ UNCHANGED users
    /\ inflight' = inflight (-) SetToBag({h})
    /\ resp' = Success("addBlacklist")
    /\ UNCHANGED <<pings, readyState, loadPc, loadDocs, now, lastSweep,
                   nextToken, nextPingId, histVars, callVars>>

\* BlacklistUser.create({ username }) has settled (the document is stored, or
\* the promise rejected: duplicate key, connection lost, buffering timed out;
\* the catch only logs) and the handler runs on after its await: it revokes
\* the session and answers
AddResume(h) ==
    /\ h \in Suspended /\ h.op = "add"
    /\ \/ readyState = 1 /\ h.username \notin db /\ db' = db \cup {h.username}
       \/ db' = db
    /\ users' = DeleteSession(h.username)
    /\ inflight' = inflight (-) SetToBag({h})
    /\ resp' = Success("addBlacklist")
    /\ UNCHANGED <<blacklistCache, pings, readyState, loadPc, loadDocs, now, lastSweep,
                   nextToken, nextPingId, histVars, callVars>>

\* ------------------------------------------------- DELETE /api/blacklist
\* blacklistCache.splice(index, 1)
CacheSplice(arr, index) == RemoveAt(arr, index)

BlacklistRemove(token, username) ==
    LET index == IndexOf(blacklistCache, username) IN
    /\ authenticate(token).ok
    /\ IF NotAdmin(authenticate(token).user) THEN AdminFail
       ELSE IF username = Missing THEN UsernameFail
       ELSE
       /\ mustList' = mustList \ {username}
       /\ UNCHANGED <<users, pings, dbVars, now, lastSweep, nextToken, nextPingId,
                      issuedTo, addSeen, callVars>>
       /\ IF index # -1
          THEN /\ blacklistCache' = CacheSplice(blacklistCache, index)
               /\ IF DbTruthy
                  THEN /\ BagCardinality(inflight) < MaxInflight
                       /\ inflight' = inflight (+) SetToBag({Handler("remove", username)})
                       /\ UNCHANGED resp
                  ELSE /\ resp' = Success("removeBlacklist")
                       /\ UNCHANGED inflight
          ELSE /\ resp' = Success("removeBlacklist")
               /\ UNCHANGED <<blacklistCache, inflight>>

\* BlacklistUser.findOneAndDelete({ username }) has settled (deleted, or
\* rejected and logged) and the handler runs on after its await
RemoveResume(h) ==
    /\ h \in Suspended /\ h.op = "remove"
    /\ \/ readyState = 1 /\ db' = db \ {h.username}
       \/ db' = db
    /\ inflight' = inflight (-) SetToBag({h})
    /\ resp' = Success("removeBlacklist")
    /\ UNCHANGED <<users, blacklistCache, pings, readyState, loadPc, loadDocs, now,
                   lastSweep, nextToken, nextPingId, histVars, callVars>>

\* ---------------------------------------------------- GET /api/blacklist
GetBlacklist(token) ==
    /\ authenticate(token).ok
    /\ IF NotAdmin(authenticate(token).user) THEN AdminFail
       ELSE /\ resp' = Success("getBlacklist") @@ [blacklist |-> blacklistCache]
            /\ UNCHANGED <<users, blacklistCache, pings, dbVars, inflight, now,
                           lastSweep, nextToken, nextPingId, histVars, callVars>>

\* ------------------------------------------- DB CONNECTION, loadBlacklist
\* mongoose.connect(MONGODB_URI).then(() => loadBlacklist()): the connection
\* is up and loadBlacklist runs to its await of find({})
ConnectOk ==
    /\ readyState = 2
    /\ readyState' = 1
    /\ loadPc' = "find"
    /\ UNCHANGED <<users, blacklistCache, pings, db, loadDocs, inflight, now,
                   lastSweep, nextToken, nextPingId, resp, histVars, callVars>>

\* .catch(err => ...): the connection attempt failed
ConnectFail ==
    /\ readyState = 2
    /\ readyState' = 0
    /\ UNCHANGED <<users, blacklistCache, pings, db, loadPc, loadDocs, inflight, now,
                   lastSweep, nextToken, nextPingId, resp, histVars, callVars>>

\* docs.map(doc => doc.username)
DocsToCache(docs) == docs

\* BlacklistUser.find({}) settles with the documents stored at that moment,
\* in the order the database returns them, or rejects
LoadSettle ==
    /\ loadPc = "find"
    /\ loadPc' = "settled"
    /\ \/ \E docs \in Perms(db) : loadDocs' = [ok |-> TRUE, docs |-> docs]
       \/ loadDocs' = [ok |-> FALSE]
    /\ UNCHANGED <<users, blacklistCache, pings, db, readyState, inflight, now,
                   lastSweep, nextToken, nextPingId, resp, histVars, callVars>>

\* loadBlacklist after its await
LoadResume ==
    /\ loadPc = "settled"
    /\ loadPc' = "done"
    /\ blacklistCache' = IF loadDocs.ok THEN DocsToCache(loadDocs.docs) ELSE blacklistCache
    /\ UNCHANGED <<users, pings, db, readyState, loadDocs, inflight, now, lastSweep,
                   nextToken, nextPingId, resp, histVars, callVars>>

PingIds == 1..(nextPingId - 1) \cup {BogusToken}
UsernameInputs == Identities \cup {Missing}

AuthRejectStep == \E t \in TokenInputs : AuthReject(t)
LoginStep == \E u \in UsernameInputs, pw \in Passwords : Login(u, pw)
GetPingsStep == \E t \in TokenInputs : GetPings(t)
PostPingStep == \E t \in TokenInputs, ty \in PingTypes, d \in DurationInputs : PostPing(t, ty, d)
DeletePingStep == \E t \in TokenInputs, id \in PingIds : DeletePing(t, id)
BlacklistAddStep == \E t \in TokenInputs, u \in UsernameInputs : BlacklistAdd(t, u)
BlacklistRemoveStep == \E t \in TokenInputs, u \in UsernameInputs : BlacklistRemove(t, u)
GetBlacklistStep == \E t \in TokenInputs : GetBlacklist(t)
AddResumeStep == \E h \in Suspended : AddResume(h)
RemoveResumeStep == \E h \in Suspended : RemoveResume(h)

\* every operation of the service
Next ==
    \/ LoginStep
    \/ AuthRejectStep
    \/ GetPingsStep
    \/ PostPingStep
    \/ DeletePingStep
    \/ Sweep
    \/ Tick
    \/ BlacklistAddStep
    \/ AddResumeStep
    \/ BlacklistRemoveStep
    \/ RemoveResumeStep
    \/ GetBlacklistStep
    \/ ConnectOk
    \/ ConnectFail
    \/ LoadSettle
    \/ LoadResume

Spec == Init /\ [][Next]_vars

\* the ping registry under the clock: sessions, posts, deletes, lists and the
\* sweep, in memory-only mode and with no blacklist traffic
InitPings == Init /\ readyState = 0 /\ db = {}
NextPings ==
    \/ LoginStep
    \/ AuthRejectStep
    \/ GetPingsStep
    \/ PostPingStep
    \/ DeletePingStep
    \/ Sweep
    \/ Tick
SpecPings == InitPings /\ [][NextPings]_vars

\* the same with the timer and the clock running on their own: the interval
\* callback is called whenever it is due, and time passes; no request is
\* ever required to arrive
FairSpecPings == SpecPings /\ WF_vars(Tick) /\ WF_vars(Sweep)

\* sessions and the blacklist with its database: logins, authenticated calls,
\* the blacklist handlers and the startup load, at one instant of the clock
NextBlacklist ==
    \/ LoginStep
    \/ AuthRejectStep
    \/ GetPingsStep
    \/ BlacklistAddStep
    \/ AddResumeStep
    \/ BlacklistRemoveStep
    \/ RemoveResumeStep
    \/ GetBlacklistStep
    \/ ConnectOk
    \/ ConnectFail
    \/ LoadSettle
    \/ LoadResume
SpecBlacklist == Init /\ [][NextBlacklist]_vars

\* every route of the service at one instant of the clock, while the database
\* connection is still being made (mongoose buffers the writes): each request
\* is answered by the middleware or by its handler
InitConnecting == Init /\ readyState = 2 /\ db = {}
NextRoutes ==
    \/ LoginStep
    \/ AuthRejectStep
    \/ GetPingsStep
    \/ PostPingStep
    \/ DeletePingStep
    \/ BlacklistAddStep
    \/ AddResumeStep
    \/ BlacklistRemoveStep
    \/ RemoveResumeStep
    \/ GetBlacklistStep
SpecRoutes == InitConnecting /\ [][NextRoutes]_vars

\* parseDuration called on its own: the argument is any of ParseInputs, the
\* call returns a number of milliseconds or throws
InitParse ==
    /\ InitService
    /\ readyState = 0
    /\ durationStr \in ParseInputs
    /\ durationMs = Null
ParseCall ==
    /\ durationMs = Null
    /\ durationMs' = IF parseDurationThrows(durationStr)
                     THEN [threw |-> "TypeError"]
                     ELSE [ms |-> parseDuration(durationStr)]
    /\ UNCHANGED <<users, blacklistCache, pings, dbVars, inflight, now, lastSweep,
                   nextToken, nextPingId, resp, histVars, durationStr>>
SpecParse == InitParse /\ [][ParseCall]_vars

\* ================================================================ claims
Answered(op) == resp.status = 200 /\ resp.op = op
Superseded(t) == \E t2 \in Tokens : t2 > t /\ issuedTo[t2] = issuedTo[t]
Listed(u) == Includes(blacklistCache, u)
Count(arr, x) == Cardinality({i \in 1..Len(arr) : arr[i] = x})
ResolvesTo(u) ==
    {t \in TokenInputs : getUserByToken(t) # Null /\ getUserByToken(t).username = u}

\* C1: once an identity has logged in again, every token an earlier login
\* returned for it resolves to "Invalid token" (401), and at no time do two
\* tokens resolve to the same identity.
C1_OneSessionPerIdentity ==
    /\ \A t \in Tokens : Superseded(t) =>
          /\ authenticate(t).status = 401
          /\ authenticate(t).error = "Invalid token"
    /\ \A u \in Identities : Cardinality(ResolvesTo(u)) <= 1

\* an identity is logged in on its second token and its first was just refused
C1_Witness ==
    \E t \in Tokens :
        /\ Superseded(t)
        /\ issuedTo[t] \in DOMAIN users
        /\ users[issuedTo[t]].token > t
        /\ resp.error = "Invalid token"

\* C2 as stated: the current token of a blacklisted principal always fails
\* with "User is blacklisted" (403), also once the add handler has finished.
C2_AlwaysBlacklisted ==
    \A t \in Tokens : (~Superseded(t) /\ Listed(issuedTo[t])) =>
        /\ authenticate(t).status = 403
        /\ authenticate(t).error = "User is blacklisted"

\* C2 amended: the current token of a blacklisted principal never resolves; it
\* fails with "User is blacklisted" (403) while the principal's session still
\* exists and with "Invalid token" (401) once the add handler has deleted it.
C2_BlacklistedNeverResolves ==
    \A t \in Tokens : (~Superseded(t) /\ Listed(issuedTo[t])) =>
        /\ ~authenticate(t).ok
        /\ IF issuedTo[t] \in DOMAIN users
           THEN authenticate(t).status = 403 /\ authenticate(t).error = "User is blacklisted"
           ELSE authenticate(t).status = 401 /\ authenticate(t).error = "Invalid token"

\* a principal banned after its login, the add handler done and the session gone
C2_Witness ==
    \E t \in addSeen :
        /\ ~Superseded(t)
        /\ Listed(issuedTo[t])
        /\ issuedTo[t] \notin DOMAIN users
        /\ inflight = EmptyBag
        /\ Answered("addBlacklist")

LocationPingsOf(arr, a) ==
    {i \in 1..Len(arr) : arr[i].type = "LOCATION" /\ arr[i].author = a}
IsLocationOf(p, a) == p.type = "LOCATION" /\ p.author = a

\* C3: no step leads to a registry (empty at the start) that holds two
\* LOCATION pings of one author, and a LOCATION post by A removes A's earlier
\* LOCATION ping while A's COORD pings and all pings of other authors stay in
\* the registry.
C3_OneLocationPerAuthor ==
    [][/\ \A a \in Identities : Cardinality(LocationPingsOf(pings', a)) <= 1
       /\ \A t \in TokenInputs, d \in DurationInputs :
            PostPing(t, "LOCATION", d) =>
                LET a == authenticate(t).user.username IN
                \A p \in Range(pings) :
                    IF IsLocationOf(p, a) THEN p \notin Range(pings')
                                          ELSE p \in Range(pings')]_vars

\* the second ping ever posted is a LOCATION ping that just replaced the first
C3_Witness ==
    /\ Answered("postPing")
    /\ resp.ping.id = 2
    /\ resp.ping.type = "LOCATION"
    /\ pings = <<resp.ping>>
    /\ now = 0

\* C4: a COORD post by a USER session answers 403 and adds nothing; a COORD
\* post by an ADMIN session always answers 200 and appends the ping.
C4_CoordByRole ==
    [][\A t \in TokenInputs, d \in DurationInputs :
        PostPing(t, "COORD", d) =>
            IF authenticate(t).user.role = "USER"
            THEN resp'.status = 403 /\ pings' = pings
            ELSE /\ resp'.status = 200
                 /\ Len(pings') = Len(pings) + 1
                 /\ pings'[Len(pings')].type = "COORD"]_vars

\* C5: delete answers 404 for an unknown id; an ADMIN removes any ping, a USER
\* removes a ping exactly when it is its own and gets 403 otherwise; a
\* successful delete removes the ping with that id and nothing else, a failed
\* one leaves the registry as it was.
C5_DeleteRules ==
    [][\A t \in TokenInputs, id \in PingIds :
        DeletePing(t, id) =>
            LET user == authenticate(t).user
                WithoutId(p) == p.id # id
            IN IF \A p \in Range(pings) : p.id # id
               THEN resp'.status = 404 /\ pings' = pings
               ELSE IF user.role = "ADMIN"
                       \/ \E p \in Range(pings) : p.id = id /\ p.author = user.username
               THEN /\ resp'.status = 200
                    /\ pings' = SelectSeq(pings, WithoutId)
                    /\ Len(pings') = Len(pings) - 1
               ELSE resp'.status = 403 /\ pings' = pings]_vars

\* a delete has removed one ping and left the other one
C5_Witness ==
    /\ Answered("deletePing")
    /\ Len(pings) = 1
    /\ nextPingId = 3

\* C6: a token issued to an identity before an add request for that identity
\* was accepted never resolves again.
C6_BannedTokensStayDead == \A t \in addSeen : ~authenticate(t).ok

\* C7: the current token of an identity that is not blacklisted, issued after
\* the last add request for that identity, resolves.
C7_LiveTokenResolves ==
    \A t \in Tokens :
        (~Superseded(t) /\ ~Listed(issuedTo[t]) /\ t \notin addSeen) => authenticate(t).ok

\* C8: an identity added by an add request and not removed since is in the
\* in-memory blacklist.
C8_AddedStaysListed == \A u \in mustList : Listed(u)

\* C9: no step leads to an in-memory blacklist (empty at the start) that holds
\* an identity twice; an add of a listed identity (also while another add of
\* it is suspended) changes nothing and answers 200, an add of an unlisted one
\* leaves exactly one entry, and a remove of an absent identity changes
\* nothing and answers 200.
C9_BlacklistIdempotent ==
    [][/\ \A u \in Identities : Count(blacklistCache', u) <= 1
       /\ \A t \in TokenInputs, u \in Identities :
            /\ (authenticate(t).ok /\ authenticate(t).user.role = "ADMIN"
                    /\ BlacklistAdd(t, u)) =>
                  /\ Count(blacklistCache', u) = 1
                  /\ Listed(u) => /\ blacklistCache' = blacklistCache
                                  /\ Answered("addBlacklist")'
                                  /\ UNCHANGED <<users, db, inflight>>
            /\ (authenticate(t).ok /\ authenticate(t).user.role = "ADMIN"
                    /\ BlacklistRemove(t, u)) =>
                  /\ Count(blacklistCache', u) = 0
                  /\ ~Listed(u) => /\ blacklistCache' = blacklistCache
                                   /\ Answered("removeBlacklist")'
                                   /\ UNCHANGED <<users, db, inflight>>]_vars

\* an add of an identity was answered while an earlier add of it is suspended
C9_Witness ==
    \E u \in Identities :
        /\ Handler("add", u) \in Suspended
        /\ Answered("addBlacklist")
        /\ Count(blacklistCache, u) = 1

\* C10 as stated: a list() answer never contains a ping whose expiresAt is at
\* or before the time of the call.
C10_ListOnlyUnexpired ==
    [][\A t \in TokenInputs : GetPings(t) =>
            \A p \in Range(resp'.body) : p.expiresAt > now]_vars

\* C10 amended: list() answers with the registry as it is, expired pings that
\* no sweep has removed yet included; no ping in the answer has an expiresAt
\* before the time of the last sweep.
C10_ListIsRegistry ==
    [][\A t \in TokenInputs : GetPings(t) =>
            /\ resp'.body = pings
            /\ \A p \in Range(resp'.body) : p.expiresAt >= lastSweep]_vars

\* after a sweep, a list() answer holds a ping posted since that had expired
\* when it was listed
C10_Witness ==
    /\ Answered("getPings")
    /\ lastSweep > 0
    /\ \E p \in Range(resp.body) : p \in Range(pings) /\ p.expiresAt <= lastSweep

HoldsToken(t) == \E u \in DOMAIN users : users[u].token = t
HolderListed(t) == \E u \in DOMAIN users : users[u].token = t /\ Listed(u)
GateAnswer(t) ==
    IF t = NoToken THEN [status |-> 401, error |-> "Missing token"]
    ELSE IF ~HoldsToken(t) THEN [status |-> 401, error |-> "Invalid token"]
    ELSE IF HolderListed(t) THEN [status |-> 403, error |-> "User is blacklisted"]
    ELSE [status |-> 200, error |-> ""]

\* C13: on every route but login a request without a token is answered 401
\* "Missing token", else one whose token no session holds 401 "Invalid token",
\* else one whose session's identity is blacklisted 403 "User is blacklisted";
\* such a request is not a step of any route handler and leaves pings,
\* blacklist, sessions, database and suspended handlers unchanged.
C13_ResolveGate ==
    [][\A t \in TokenInputs :
        /\ AuthReject(t) =>
              /\ GateAnswer(t).status # 200
              /\ resp' = GateAnswer(t)
              /\ UNCHANGED <<users, blacklistCache, pings, db, inflight, nextPingId>>
        /\ GateAnswer(t).status # 200 =>
              /\ ~authenticate(t).ok
              /\ ~GetPings(t)
              /\ ~GetBlacklist(t)
              /\ \A ty \in PingTypes, d \in DurationInputs : ~PostPing(t, ty, d)
              /\ \A id \in PingIds : ~DeletePing(t, id)
              /\ \A u \in UsernameInputs : ~BlacklistAdd(t, u) /\ ~BlacklistRemove(t, u)
      ]_vars

\* the middleware has just refused the token of a session whose identity was
\* blacklisted after its login, with a ping in the registry
C13_Witness ==
    /\ resp = [status |-> 403, error |-> "User is blacklisted"]
    /\ \E t \in Tokens : HolderListed(t)
    /\ pings # <<>>

UserSession(t) == authenticate(t).ok /\ authenticate(t).user.role = "USER"
AdminSession(t) == authenticate(t).ok /\ authenticate(t).user.role = "ADMIN"

C15_WriteFailureTolerated ==
    [][\A h \in Suspended :
        /\ (AddResume(h) /\ db' = db) =>
              /\ blacklistCache' = blacklistCache
              /\ h.username \notin DOMAIN users'
              /\ \A u \in DOMAIN users \ {h.username} : u \in DOMAIN users' /\ users'[u] = users[u]
              /\ Answered("addBlacklist")'
              /\ (ENABLED LoginStep)'
        /\ (RemoveResume(h) /\ db' = db) =>
              /\ blacklistCache' = blacklistCache
              /\ users' = users
              /\ Answered("removeBlacklist")'
              /\ (ENABLED LoginStep)'
      ]_vars

\* the connection is up, an add has been answered and the identity is on the
\* in-memory blacklist without a session, yet its document is not stored
C15_Witness ==
    /\ readyState = 1
    /\ inflight = EmptyBag
    /\ Answered("addBlacklist")
    /\ \E t \in Tokens : /\ Listed(issuedTo[t])
                         /\ issuedTo[t] \notin db
                         /\ issuedTo[t] \notin DOMAIN users

\* C16: a post answered 200 at time now leaves the registry as it was, less
\* the author's LOCATION pings when the post is a LOCATION post, plus one ping
\* at the end; that ping is the one returned, its author is the requester, its
\* type the requested type, its expiresAt is now + parseDuration(duration),
\* and its id is the id of no ping that is or ever was in the registry.
C16_PostAppendsOne ==
    [][\A t \in Tokens, ty \in PingTypes, d \in DurationInputs :
        (Answered("postPing")' /\ PostPing(t, ty, d)) =>
            LET a == authenticate(t).user.username
                new == pings'[Len(pings')]
                Stays(p) == ~(ty = "LOCATION" /\ IsLocationOf(p, a))
            IN /\ Len(pings') >= 1
               /\ SubSeq(pings', 1, Len(pings') - 1) = SelectSeq(pings, Stays)
               /\ new.author = a
               /\ new.type = ty
               /\ new.expiresAt = now + parseDuration(d)
               /\ new.id \notin 1..(nextPingId - 1)
               /\ \A p \in Range(pings) : p.id # new.id
               /\ resp'.ping = new]_vars

\* the second ping, a COORD ping posted with "10s" after the clock has moved,
\* stands behind the first one
C16_Witness ==
    /\ Answered("postPing")
    /\ now > 0
    /\ Len(pings) = 2
    /\ pings[2] = resp.ping
    /\ pings[2].type = "COORD"
    /\ pings[2].expiresAt = now + 10000
    /\ pings[1].id < pings[2].id

\* C17: a post that is not answered with a created ping (403 for a COORD post
\* of a USER session, 400 for a type other than LOCATION and COORD, a failure
\* while the duration is parsed) leaves the registry exactly as it was.
C17_FailedPostChangesNothing ==
    [][\A t \in Tokens, ty \in PingTypes, d \in DurationInputs :
        (resp'.status # 200 /\ PostPing(t, ty, d)) => pings' = pings]_vars

InRegistry(id) == \E i \in 1..Len(pings) : pings[i].id = id
Horizon == MaxTicks * SweepPeriodMs     \* the last instant of the modelled clock

InPostingOrder(arr) == \A i, j \in 1..Len(arr) : i < j => arr[i].id < arr[j].id

WellFormed(cs) ==
    /\ Len(cs) >= 2
    /\ \A i \in 1..(Len(cs) - 1) : cs[i] \in Digits
    /\ cs[Len(cs)] \in {"s", "m", "h", "d", "w"}
Multiplier(u) ==
    CASE u = "s" -> 1000 [] u = "m" -> 60000 [] u = "h" -> 3600000
      [] u = "d" -> 86400000 [] u = "w" -> 604800000
RECURSIVE NumberOf(_)
NumberOf(cs) ==
    IF cs = <<>> THEN 0
    ELSE LET rest == NumberOf(Tail(cs))
             place == CHOOSE k \in {1, 10, 100, 1000} :
                        k = CASE Len(cs) = 1 -> 1 [] Len(cs) = 2 -> 10
                              [] Len(cs) = 3 -> 100 [] OTHER -> 1000
         IN DigitVal(Head(cs)) * place + rest
Claimed(d) ==
    IF d.kind = "string" /\ WellFormed(d.chars)
    THEN NumberOf(SubSeq(d.chars, 1, Len(d.chars) - 1)) * Multiplier(d.chars[Len(d.chars)])
    ELSE 300000

\* C20: a call of parseDuration returns n * multiplier milliseconds for an
\* argument "<digits of n><unit>", unit one of s, m, h, d, w with multipliers
\* 1000, 60000, 3600000, 86400000, 604800000, and returns 300000 for an absent
\* argument and for every argument that is not of that form.
C20_ParseDurationTotal ==
    durationMs # Null => durationMs = [ms |-> Claimed(durationStr)]
====
